---------------------------- MODULE Spec2Model ----------------------------
(***************************************************************************)
(* The skill orchestrator of clawstr-skill-orchestrator: discovery,        *)
(* greedy clustering (utils/nlp_helper.py), consolidation, publishing and  *)
(* archiving (orchestrator.py), as a state machine of one orchestration    *)
(* run, together with the pure version arithmetic of the Consolidator.     *)
(***************************************************************************)
EXTENDS Integers, Sequences, FiniteSets, TLC

(***************************************************************************)
(* Bounds of the model.                                                    *)
(***************************************************************************)
\* The most documents one run finds under the skills directory.
MaxSkills == 4
\* The largest cluster handed directly to consolidate_cluster.
MaxCluster == 3

\* The launch events a relay is given at most.
MaxEvents == 3

\* The last instant of the clock of the heartbeat, in sleep periods.
MaxTime == 7

(***************************************************************************)
(* Strings whose characters matter (version strings) are sequences of      *)
(* one-character strings.  CharOrder lists the characters used, in code    *)
(* point order: Python compares str values code point by code point.       *)
(***************************************************************************)
Digits == <<"0", "1", "2", "3", "4", "5", "6", "7", "8", "9">>

CharOrder == <<".">> \o Digits \o <<"x">>

Ord(c) == CHOOSE i \in 1..Len(CharOrder) : CharOrder[i] = c

IsDigit(c) == \E i \in 1..Len(Digits) : Digits[i] = c

DigitVal(c) == (CHOOSE i \in 1..Len(Digits) : Digits[i] = c) - 1

\* Python's a < b on str: the first differing character decides, a proper
\* prefix is smaller.
StrLess(a, b) ==
    \/ /\ Len(a) < Len(b)
       /\ \A k \in 1..Len(a) : a[k] = b[k]
    \/ \E k \in 1..Len(a) :
          /\ k <= Len(b)
          /\ \A m \in 1..(k - 1) : a[m] = b[m]
          /\ Ord(a[k]) < Ord(b[k])

\* Python's max(iterable, default=...): the first of the largest items (an
\* item replaces the running maximum only when it is strictly greater).
RECURSIVE MaxFrom(_, _, _)
MaxFrom(items, k, best) ==
    IF k > Len(items) THEN best
    ELSE MaxFrom(items, k + 1, IF StrLess(best, items[k]) THEN items[k] ELSE best)

StrMax(items, default) ==
    IF Len(items) = 0 THEN default ELSE MaxFrom(items, 2, items[1])

\* str.split("."): the pieces between the dots, empty pieces kept.
RECURSIVE SplitFrom(_, _, _, _)
SplitFrom(s, k, cur, parts) ==
    IF k > Len(s) THEN Append(parts, cur)
    ELSE IF s[k] = "." THEN SplitFrom(s, k + 1, <<>>, Append(parts, cur))
    ELSE SplitFrom(s, k + 1, Append(cur, s[k]), parts)

SplitDots(s) == SplitFrom(s, 1, <<>>, <<>>)

\* int(part) succeeds on a non-empty run of decimal digits (of the
\* characters in CharOrder) and raises ValueError otherwise.
IntParses(part) == Len(part) > 0 /\ \A k \in 1..Len(part) : IsDigit(part[k])

RECURSIVE IntFrom(_, _, _)
IntFrom(part, k, acc) ==
    IF k > Len(part) THEN acc ELSE IntFrom(part, k + 1, 10 * acc + DigitVal(part[k]))

IntOf(part) == IntFrom(part, 1, 0)

\* str(n) of a non-negative integer, as in the f-string of _increment_version.
RECURSIVE IntToStr(_)
IntToStr(n) ==
    IF n < 10 THEN <<Digits[n + 1]>>
    ELSE Append(IntToStr(n \div 10), Digits[(n % 10) + 1])

DefaultVersion == <<"1", ".", "0", ".", "0">>

FallbackVersion == <<"1", ".", "0", ".", "1">>

\* parts[0], parts[1], parts[2] exist and each is accepted by int().
VersionParses(version_str) ==
    LET parts == SplitDots(version_str)
    IN  /\ Len(parts) >= 3
        /\ \A k \in 1..3 : IntParses(parts[k])

\* The patch component after "patch += 1".
BumpPatch(patch) == patch + 1

\* SkillOrchestrator._increment_version.
increment_version(version_str) ==
    IF VersionParses(version_str)
    THEN LET parts == SplitDots(version_str)
         IN  IntToStr(IntOf(parts[1])) \o <<".">> \o IntToStr(IntOf(parts[2]))
               \o <<".">> \o IntToStr(BumpPatch(IntOf(parts[3])))
    ELSE FallbackVersion

(***************************************************************************)
(* The documents a run can find.  A path is a directory and a file name    *)
(* (pathlib's parent and name).  Document k stands for the text of one     *)
(* SKILL file; its header fields are what yaml.safe_load returns for it.   *)
(*                                                                         *)
(* A text is the non-empty sequence of its lines, the pieces between the   *)
(* "\n" characters: the empty text is one empty line, and a text that ends *)
(* with "\n" has an empty last line.  Lines carry no blanks at their ends. *)
(***************************************************************************)
Path(dir, name) == [dir |-> dir, name |-> name]

\* The line "---".
Marker == [kind |-> "marker"]

\* A line "key: value" of YAML, with the value yaml.safe_load gives it (a
\* list in block style goes with the line of its key).
Pair(key, val) == [kind |-> "pair", key |-> key, val |-> val]

\* Any other line; the empty string is a blank line.
Text(s) == [kind |-> "text", text |-> s]

\* A line that no YAML document can contain, such as "tags: [a, b".
Bad(s) == [kind |-> "bad", text |-> s]

\* The empty text "".
EmptyText == <<Text("")>>

\* str.strip() of a text: the blank lines at both ends go.
RECURSIVE LStrip(_)
LStrip(t) == IF Len(t) > 1 /\ t[1] = Text("") THEN LStrip(Tail(t)) ELSE t

RECURSIVE RStrip(_)
RStrip(t) ==
    IF Len(t) > 1 /\ t[Len(t)] = Text("") THEN RStrip(SubSeq(t, 1, Len(t) - 1)) ELSE t

Strip(t) == RStrip(LStrip(t))

Docs ==
    [d \in {"d1", "d2", "d3", "d4", "d5", "g1", "g2",
             "b1", "b2", "b3", "b4", "b5", "b6", "b7", "b8"} |->
       CASE d = "d1" -> [file |-> Path("skills", "deploy.md"), name |-> "deploy",
                         description |-> "Deploy code to prod",
                         version |-> <<"1", ".", "2", ".", "9">>]
         [] d = "d2" -> [file |-> Path("skills", "release.md"), name |-> "release",
                         description |-> "Deploys code to production",
                         version |-> <<"1", ".", "2", ".", "1", "0">>]
         [] d = "d3" -> [file |-> Path("skills", "ship.md"), name |-> "ship",
                         description |-> "Ship code",
                         version |-> <<"1", ".", "2">>]
         [] d = "d4" -> [file |-> Path("skills/ops", "deploy.md"), name |-> "deploy",
                         description |-> "Water the plants",
                         version |-> <<"1", ".", "0", ".", "0">>]
         [] d = "d5" -> [file |-> Path("skills", "garden.md"), name |-> "garden",
                         description |-> "Water plants daily",
                         version |-> <<"x">>]
         \* a header with the name only
         [] d = "g1" -> [file |-> Path("skills", "rollout.md"),
                         lines |-> <<Marker, Pair("name", "rollout"), Marker, Text("")>>]
         \* no description, a key the parser does not know, a body between
         \* blank lines
         [] d = "g2" -> [file |-> Path("skills", "irrigate.md"),
                         lines |-> <<Marker, Pair("name", "irrigate"), Pair("license", "MIT"),
                                     Pair("author", "Ana"), Pair("category", "garden"),
                                     Pair("tags", <<"water", "plants">>), Marker,
                                     Text(""), Text("# Steps"), Text("Open the tap"),
                                     Text(""), Text("")>>]
         \* no header block at all
         [] d = "b1" -> [file |-> Path("skills", "notes.md"),
                         lines |-> <<Text("# Notes"), Text("Remember the tap"), Text("")>>]
         \* a header that is not YAML
         [] d = "b2" -> [file |-> Path("skills", "broken.md"),
                         lines |-> <<Marker, Pair("name", "broken"), Bad("tags: [a, b"),
                                     Marker, Text("")>>]
         \* a header that is one plain scalar: safe_load returns a str
         [] d = "b3" -> [file |-> Path("skills", "title.md"),
                         lines |-> <<Marker, Text("Release checklist"), Marker,
                                     Text("# Steps"), Text("")>>]
         \* a header without a name
         [] d = "b4" -> [file |-> Path("skills", "anon.md"),
                         lines |-> <<Marker, Pair("description", "Ship code"), Marker,
                                     Text("")>>]
         \* the closing "---" is the end of the text: no "\n" follows it
         [] d = "b5" -> [file |-> Path("skills", "cut.md"),
                         lines |-> <<Marker, Pair("name", "cut"), Marker>>]
         \* a blank header: safe_load returns None
         [] d = "b6" -> [file |-> Path("skills", "blank.md"),
                         lines |-> <<Marker, Text(""), Marker, Text("")>>]
         \* "---" twice with nothing between
         [] d = "b7" -> [file |-> Path("skills", "rule.md"),
                         lines |-> <<Marker, Marker, Text("Remember the tap"), Text("")>>]
         \* an empty name
         [] d = "b8" -> [file |-> Path("skills", "noname.md"),
                         lines |-> <<Marker, Pair("name", ""), Pair("version", <<"2", ".", "0", ".", "0">>),
                                     Marker, Text("")>>]]

\* The documents whose header gives name, description and version.
DocIds == {"d1", "d2", "d3", "d4", "d5"}

\* The text of document d.
TextOf(d) ==
    IF "lines" \in DOMAIN Docs[d] THEN Docs[d].lines
    ELSE <<Marker, Pair("name", Docs[d].name), Pair("description", Docs[d].description),
           Pair("version", Docs[d].version), Marker, Text("")>>

\* The sequences of distinct documents of length at most n: what
\* target_path.glob("**/*.md") can yield, in the order the file system gives.
GlobOrders(n) ==
    UNION {{s \in [1..k -> DocIds] : \A i, j \in 1..k : i # j => s[i] # s[j]} : k \in 0..n}

(***************************************************************************)
(* SkillOrchestratorConfig.similarity_threshold and the similarity scores  *)
(* are in hundredths.  The sentence-transformer model is external: Embed   *)
(* is one deterministic embedding, all of whose vectors have the same      *)
(* length, so that the cosine of two of them is dot(u, v) / dot(u, u).     *)
(***************************************************************************)
Embed(text) ==
    CASE text = "Deploy code to prod" -> <<5, 0>>
      [] text = "Deploys code to production" -> <<4, 3>>
      [] text = "Ship code" -> <<3, 4>>
      [] text = "Water the plants" -> <<-4, 3>>
      [] text = "Water plants daily" -> <<-3, 4>>
      [] text = "rollout" -> <<4, 3>>
      [] text = "irrigate" -> <<-4, 3>>
      [] OTHER -> <<0, 5>>

Dot(u, v) == u[1] * v[1] + u[2] * v[2]

\* The dot product taken for the cosine.
CosinePct_DotOnly(u, v) == Dot(u, v) * 100

\* sklearn's cosine_similarity, in hundredths.
CosinePct(u, v) == (Dot(u, v) * 100) \div Dot(u, u)

\* skill.get("description", skill.get("name", "")).
TextKey(skill) ==
    IF "description" \in DOMAIN skill THEN skill.description
    ELSE IF "name" \in DOMAIN skill THEN skill.name
    ELSE ""

\* similarity_matrix[i][j] of NLPHelper.cluster_skills (positions from 1).
similarity_matrix(skills, i, j) ==
    CosinePct(Embed(TextKey(skills[i])), Embed(TextKey(skills[j])))

\* self.model.encode(text): the array of the n-th invocation. Every
\* invocation builds a new array, told apart here by its number.
encode(text, n) == [vector |-> Embed(text), call |-> n]

\* No entry is written.
Store_Nothing(cache, text, embedding) == cache

\* self.embeddings_cache[text] = embedding.
Store(cache, text, embedding) ==
    [t \in DOMAIN cache \cup {text} |-> IF t = text THEN embedding ELSE cache[t]]

\* NLPHelper.get_embedding(text) on a helper with the given cache, after
\* calls invocations of encode: the array returned and the helper afterwards.
get_embedding(cache, calls, text) ==
    IF text \in DOMAIN cache
    THEN [embedding |-> cache[text], cache |-> cache, calls |-> calls]
    ELSE LET embedding == encode(text, calls + 1)
         IN  [embedding |-> embedding,
              cache |-> Store(cache, text, embedding),
              calls |-> calls + 1]

\* The helper after "for skill in skills: self.get_embedding(...)", from
\* position k on.
RECURSIVE EmbedSkills(_, _, _, _)
EmbedSkills(cache, calls, skills, k) ==
    IF k > Len(skills) THEN [cache |-> cache, calls |-> calls]
    ELSE LET got == get_embedding(cache, calls, TextKey(skills[k]))
         IN  EmbedSkills(got.cache, got.calls, skills, k + 1)

\* The helper after NLPHelper.cluster_skills(skills, ...).
HelperAfterClustering(cache, calls, skills) ==
    IF Len(skills) = 0 THEN [cache |-> cache, calls |-> calls]
    ELSE EmbedSkills(cache, calls, skills, 1)

(***************************************************************************)
(* NLPHelper.cluster_skills: the greedy clustering.  Clusters are built as *)
(* sequences of positions of the input and then read as the records at     *)
(* those positions; cluster_k is element k + 1 of the result.              *)
(***************************************************************************)
\* A strict comparison in place of ">=".
SimilarEnough_Strict(skills, i, j, threshold) == similarity_matrix(skills, i, j) > threshold

\* "similarity_matrix[i][j] >= threshold".
SimilarEnough(skills, i, j, threshold) == similarity_matrix(skills, i, j) >= threshold

\* The inner loop without its "assigned.add(j)".
MarkAssigned_Forgotten(assigned, j) == assigned

\* "assigned.add(j)".
MarkAssigned(assigned, j) == assigned \cup {j}

\* The inner loop "for j in range(i + 1, len(skills))" from position j on.
RECURSIVE ScanLater(_, _, _, _, _, _)
ScanLater(skills, threshold, i, j, assigned, cluster) ==
    IF j > Len(skills) THEN [cluster |-> cluster, assigned |-> assigned]
    ELSE IF j \notin assigned /\ SimilarEnough(skills, i, j, threshold)
         THEN ScanLater(skills, threshold, i, j + 1, MarkAssigned(assigned, j),
                        Append(cluster, j))
         ELSE ScanLater(skills, threshold, i, j + 1, assigned, cluster)

\* The outer loop "for i, skill in enumerate(skills)" from position i on.
RECURSIVE ClusterFrom(_, _, _, _, _)
ClusterFrom(skills, threshold, i, assigned, clusters) ==
    IF i > Len(skills) THEN clusters
    ELSE IF i \in assigned THEN ClusterFrom(skills, threshold, i + 1, assigned, clusters)
    ELSE LET r == ScanLater(skills, threshold, i, i + 1, assigned \cup {i}, <<i>>)
         IN  ClusterFrom(skills, threshold, i + 1, r.assigned, Append(clusters, r.cluster))

ClusterPositions(skills, threshold) == ClusterFrom(skills, threshold, 1, {}, <<>>)

nlp_cluster_skills(skills, threshold) ==
    LET pos == ClusterPositions(skills, threshold)
    IN  [k \in 1..Len(pos) |-> [m \in 1..Len(pos[k]) |-> skills[pos[k][m]]]]

(***************************************************************************)
(* SkillOrchestrator.consolidate_cluster.  None is Python's None.          *)
(***************************************************************************)
None == [kind |-> "None"]

Versions(skills) == [k \in 1..Len(skills) |-> skills[k].version]

\* "max((s.get("version", "1.0.0") for s in skills), default="1.0.0")".
MaxVersion(skills) == StrMax(Versions(skills), DefaultVersion)

\* "<" in place of "<=".
TooSmall_OffByOne(skills) == Len(skills) < 1

\* "if len(skills) <= 1".
TooSmall(skills) == Len(skills) <= 1

\* dict.get(key, default).
Get(map, key, default) == IF key \in DOMAIN map THEN map[key] ELSE default

(***************************************************************************)
(* SkillOrchestrator._merge_descriptions.  Descriptions are strings as a   *)
(* whole; StripStr is str.strip() on the descriptions that the direct      *)
(* calls below are given, the only ones with blanks at their ends.         *)
(***************************************************************************)
StripStr(s) ==
    CASE s = " Build things. " -> "Build things."
      [] s = "Ship fast.  " -> "Ship fast."
      [] s = "   " -> ""
      [] OTHER -> s

\* "[s.get("description", "").strip() for s in skills if s.get("description")]".
RECURSIVE StrippedDescriptions(_, _)
StrippedDescriptions(skills, k) ==
    IF k > Len(skills) THEN <<>>
    ELSE IF Get(skills[k], "description", "") # ""
         THEN <<StripStr(Get(skills[k], "description", ""))>> \o StrippedDescriptions(skills, k + 1)
         ELSE StrippedDescriptions(skills, k + 1)

\* The test without "desc not in seen".
Unseen_NoDedupe(item, seen) == item # ""

\* "if desc and desc not in seen".
Unseen(item, seen) == item # "" /\ item \notin seen

\* The loop that fills unique_descriptions.
RECURSIVE UniqueDescriptions(_, _, _, _)
UniqueDescriptions(descriptions, k, seen, unique) ==
    IF k > Len(descriptions) THEN unique
    ELSE IF Unseen(descriptions[k], seen)
         THEN UniqueDescriptions(descriptions, k + 1, seen \cup {descriptions[k]},
                                 Append(unique, descriptions[k]))
         ELSE UniqueDescriptions(descriptions, k + 1, seen, unique)

\* " ".join(items).
RECURSIVE JoinSpace(_)
JoinSpace(items) ==
    IF Len(items) = 0 THEN ""
    ELSE IF Len(items) = 1 THEN items[1]
    ELSE items[1] \o " " \o JoinSpace(Tail(items))

merge_descriptions(skills) ==
    JoinSpace(UniqueDescriptions(StrippedDescriptions(skills, 1), 1, {}, <<>>))

(***************************************************************************)
(* SkillOrchestrator._merge_bodies.  A body is a text; a section is a      *)
(* text too.                                                               *)
(***************************************************************************)
\* "[s.get("body", "") for s in skills if s.get("body")]": the bodies that
\* are not the empty string.
RECURSIVE Bodies(_, _)
Bodies(skills, k) ==
    IF k > Len(skills) THEN <<>>
    ELSE IF Get(skills[k], "body", EmptyText) # EmptyText
         THEN <<Get(skills[k], "body", EmptyText)>> \o Bodies(skills, k + 1)
         ELSE Bodies(skills, k + 1)

\* The line matches "#+\s" at its start: one or more "#" and a blank.
StartsHeading(line) ==
    /\ line.kind = "text"
    /\ line.text \in {"# Steps", "## Deploy", "# Setup", "# Consolidated Workflow"}

\* re.split(r"\n(?=#+\s)", body): a section ends at the "\n" before a line
\* that starts a heading.
RECURSIVE SplitSections(_, _, _, _)
SplitSections(body, k, cur, sections) ==
    IF k > Len(body) THEN Append(sections, cur)
    ELSE IF k >= 2 /\ StartsHeading(body[k])
         THEN SplitSections(body, k + 1, <<body[k]>>, Append(sections, cur))
         ELSE SplitSections(body, k + 1, Append(cur, body[k]), sections)

\* "[s.strip() for s in sections if s.strip()]".
RECURSIVE StrippedSections(_, _)
StrippedSections(sections, k) ==
    IF k > Len(sections) THEN <<>>
    ELSE IF Strip(sections[k]) # EmptyText
         THEN <<Strip(sections[k])>> \o StrippedSections(sections, k + 1)
         ELSE StrippedSections(sections, k + 1)

\* all_sections after the loop over bodies.
RECURSIVE AllSections(_, _)
AllSections(bodies, k) ==
    IF k > Len(bodies) THEN <<>>
    ELSE StrippedSections(SplitSections(bodies[k], 1, <<>>, <<>>), 1)
           \o AllSections(bodies, k + 1)

\* The test that takes every section.
NewSection_Always(section, seen_sections) == TRUE

\* "if section not in seen_sections".
NewSection(section, seen_sections) == section \notin seen_sections

\* The loop that fills unique_sections.
RECURSIVE UniqueSections(_, _, _, _)
UniqueSections(all_sections, k, seen_sections, unique_sections) ==
    IF k > Len(all_sections) THEN unique_sections
    ELSE IF NewSection(all_sections[k], seen_sections)
         THEN UniqueSections(all_sections, k + 1, seen_sections \cup {all_sections[k]},
                             Append(unique_sections, all_sections[k]))
         ELSE UniqueSections(all_sections, k + 1, seen_sections, unique_sections)

\* "\n\n".join(texts): a blank line between one text and the next.
RECURSIVE JoinBlankLine(_)
JoinBlankLine(texts) ==
    IF Len(texts) = 0 THEN EmptyText
    ELSE IF Len(texts) = 1 THEN texts[1]
    ELSE texts[1] \o <<Text("")>> \o JoinBlankLine(Tail(texts))

\* "# Consolidated Workflow\n\n" + rest.
UnderHeading(rest) == <<Text("# Consolidated Workflow"), Text("")>> \o rest

merge_bodies(skills) ==
    LET bodies == Bodies(skills, 1)
    IN  IF Len(bodies) = 0 THEN UnderHeading(<<Text("No body content found.")>>)
        ELSE UnderHeading(JoinBlankLine(UniqueSections(AllSections(bodies, 1), 1, {}, <<>>)))

(***************************************************************************)
(* The tags of a master: "list(set(tag for s in skills for tag in          *)
(* s.get("tags", [])))".  The order in which a set is listed is the hash   *)
(* order, which differs from one interpreter to the next: every order is   *)
(* possible.                                                               *)
(***************************************************************************)
\* The generator: the tags of all records, one record after the other.
RECURSIVE AllTags(_, _)
AllTags(skills, k) ==
    IF k > Len(skills) THEN <<>>
    ELSE Get(skills[k], "tags", <<>>) \o AllTags(skills, k + 1)

\* set(items).
SetOf(items) == {items[k] : k \in 1..Len(items)}

\* list(S): the items of S, each once, in any order.
ListsOf(S) ==
    {l \in [1..Cardinality(S) -> S] : \A i, j \in 1..Cardinality(S) : i # j => l[i] # l[j]}

\* list(...) of the generator itself, no set between.
TagLists_NoSet(skills) == {AllTags(skills, 1)}

TagLists(skills) == ListsOf(SetOf(AllTags(skills, 1)))

\* The lists that the call for cluster_id can be given as its tags.
TagListsOf(clusters, cluster_id) ==
    IF cluster_id + 1 \in DOMAIN clusters THEN TagLists(clusters[cluster_id + 1])
    ELSE {<<>>}

\* clusters is self.clusters; cluster_id k names cluster_k; tags is the list
\* that list(set(...)) yields in this call.  The time stamp consolidated_at
\* is left out.
consolidate_cluster(clusters, cluster_id, tags) ==
    IF cluster_id + 1 \notin DOMAIN clusters THEN None
    ELSE LET skills == clusters[cluster_id + 1]
         IN  IF TooSmall(skills) THEN None
             ELSE LET master_name == skills[1].name \o "_Master"
                      master_version == increment_version(MaxVersion(skills))
                      category == Get(skills[1], "category", "uncategorized")
                      merged_from == [k \in 1..Len(skills) |-> skills[k].name]
                  IN  [kind |-> "master",
                       name |-> master_name,
                       description |-> merge_descriptions(skills),
                       version |-> master_version,
                       author |-> "Clawstr Orchestrator",
                       category |-> category,
                       tags |-> tags,
                       merged_from |-> merged_from,
                       body |-> merge_bodies(skills),
                       metadata |-> [name |-> master_name,
                                     description |-> merge_descriptions(skills),
                                     version |-> master_version,
                                     author |-> "Clawstr Orchestrator",
                                     category |-> category,
                                     tags |-> tags,
                                     merged_from |-> merged_from]]

(***************************************************************************)
(* The state of one SkillOrchestrator and of the repository it works on.   *)
(***************************************************************************)
VARIABLES
    pc,                   \* where run_full_orchestration (or the caller) stands
    fs,                   \* the files of the repository: path -> content
    glob_order,           \* the documents, in the order glob yields them
    similarity_threshold, \* config.similarity_threshold, in hundredths
    auto_commit,          \* config.auto_commit
    auto_push,            \* config.auto_push
    git_manager,          \* whether self.git_manager is set
    discovered_skills,    \* self.discovered_skills
    clusters,             \* self.clusters, cluster_k at position k + 1
    consolidated,         \* the local list "consolidated"
    archivable_skills,    \* the local list "archivable_skills" (names)
    published,            \* the local list "published" (paths)
    archived,             \* the list "archived" of archive_original_skills
    idx,                  \* the position of the running for loop
    write_errors,         \* positions of "consolidated" whose write was logged as failed
    raised,               \* the exception that left run_full_orchestration, or "none"
    committed,            \* whether a commit was made
    pushed,               \* whether a push was made
    summary,              \* the dict run_full_orchestration returned
    call_result,          \* what a direct consolidate_cluster call returned
    embeddings_cache,     \* nlp_helper.embeddings_cache: text -> array
    encode_calls,         \* how often nlp_helper.model.encode was invoked
    launch_file,          \* whether the file .clawnch_launched exists
    launchers,            \* the ClawnchLauncher instances: created, _launched
    relay_events,         \* the launch events published to the relay
    loop_pc,              \* where run_loop of the heartbeat stands
    now,                  \* datetime.now(), in sleep periods of run_loop
    interval,             \* heartbeat.interval, in sleep periods
    last_run,             \* heartbeat.last_run: <<>> for None, or <<instant>>
    run_ended,            \* when run_orchestration last returned: <<>> or <<instant>>
    last_outcome          \* how the last orchestration run of the heartbeat ended

vars == <<pc, fs, glob_order, similarity_threshold, auto_commit, auto_push,
          git_manager, discovered_skills, clusters, consolidated,
          archivable_skills, published, archived, idx, write_errors, raised,
          committed, pushed, summary, call_result, embeddings_cache,
          encode_calls, launch_file, launchers, relay_events, loop_pc, now,
          interval, last_run, run_ended, last_outcome>>

\* The variables of the embedding helper.
helper_vars == <<embeddings_cache, encode_calls>>

\* NLPHelper.__init__: an empty cache, the model never invoked.
NewHelper ==
    /\ embeddings_cache = <<>>
    /\ encode_calls = 0

\* The variables of the token launcher.
launcher_vars == <<launch_file, launchers, relay_events>>

\* The ClawnchLauncher instances of the processes sharing one directory.
Launchers == {"l1", "l2"}

NotCreated == [created |-> FALSE, launched |-> FALSE]

\* No launcher was created and nothing was launched.
NoLauncher ==
    /\ launch_file = FALSE
    /\ launchers = [l \in Launchers |-> NotCreated]
    /\ relay_events = 0

\* The variables of the heartbeat.
heartbeat_vars == <<loop_pc, now, interval, last_run, run_ended, last_outcome>>

\* No heartbeat is running.
NoHeartbeat ==
    /\ loop_pc = "off"
    /\ now = 0
    /\ interval = 0
    /\ last_run = <<>>
    /\ run_ended = <<>>
    /\ last_outcome = "none"

\* What the orchestrator leaves alone.
service_vars == <<launcher_vars, heartbeat_vars>>

\* The thresholds a configuration is given: the default 0.6, a stricter one,
\* and the two ends outside [0, 1].
Thresholds == {0, 60, 80, 101}

FileOf(d) == [kind |-> "skill", id |-> d]

\* The repository holding exactly the documents of order.
FilesOf(order) ==
    [p \in {Docs[order[k]].file : k \in 1..Len(order)} |->
        FileOf(CHOOSE d \in DOMAIN Docs : Docs[d].file = p /\ \E k \in 1..Len(order) : order[k] = d)]

NoSummary == [status |-> "none"]

NoCall == [kind |-> "not called"]

\* A repository with some documents, before run_full_orchestration.
InitRun ==
    /\ pc = "start"
    /\ glob_order \in GlobOrders(MaxSkills)
    /\ fs = FilesOf(glob_order)
    /\ similarity_threshold \in Thresholds
    /\ auto_commit \in BOOLEAN
    /\ auto_push \in BOOLEAN
    /\ git_manager \in BOOLEAN
    /\ discovered_skills = <<>>
    /\ clusters = <<>>
    /\ consolidated = <<>>
    /\ archivable_skills = <<>>
    /\ published = <<>>
    /\ archived = <<>>
    /\ idx = 0
    /\ write_errors = {}
    /\ raised = "none"
    /\ committed = FALSE
    /\ pushed = FALSE
    /\ summary = NoSummary
    /\ call_result = NoCall
    /\ NewHelper
    /\ NoLauncher
    /\ NoHeartbeat

(***************************************************************************)
(* Phase 1: discover_skills and _parse_skill_file.                         *)
(***************************************************************************)
\* The lines at which re.match(r"^---\n(.*?)\n---\n(.*)", content, re.DOTALL)
\* can end the header: a line "---" that has a line before it after the
\* first, and a "\n" (so another line) after it.
ClosingMarkers(content) == {c \in 3..(Len(content) - 1) : content[c] = Marker}

\* Whether the pattern matches: the text starts with "---\n".
HeaderMatches(content) ==
    /\ Len(content) >= 2
    /\ content[1] = Marker
    /\ ClosingMarkers(content) # {}

\* "(.*?)" is not greedy: the header ends at the first closing marker.
ClosingMarker(content) ==
    CHOOSE c \in ClosingMarkers(content) : \A e \in ClosingMarkers(content) : c <= e

\* match.group(1) and match.group(2).
HeaderGroup(content) == SubSeq(content, 2, ClosingMarker(content) - 1)

BodyGroup(content) == SubSeq(content, ClosingMarker(content) + 1, Len(content))

\* The "key: value" lines and the plain lines of a header.
PairLines(header) == SelectSeq(header, LAMBDA l : l.kind = "pair")

PlainLines(header) == SelectSeq(header, LAMBDA l : l.kind = "text" /\ l.text # "")

\* yaml.safe_load raises yaml.YAMLError: a line that is no YAML, or plain
\* text beside the mapping.
YAMLError(header) ==
    \/ \E k \in 1..Len(header) : header[k].kind = "bad"
    \/ Len(PairLines(header)) > 0 /\ Len(PlainLines(header)) > 0

\* The dict of a mapping: of two lines with one key the later one counts.
MappingOf(pairs) ==
    [key \in {pairs[k].key : k \in 1..Len(pairs)} |->
        pairs[CHOOSE k \in 1..Len(pairs) :
                 /\ pairs[k].key = key
                 /\ \A m \in (k + 1)..Len(pairs) : pairs[m].key # key].val]

\* yaml.safe_load(match.group(1)): a dict for a mapping, a str for plain
\* text, None for a header with neither.  A leading "---" is YAML's own
\* document start.
safe_load(header) ==
    IF Len(PairLines(header)) > 0 THEN [kind |-> "dict", map |-> MappingOf(PairLines(header))]
    ELSE IF Len(PlainLines(header)) > 0 THEN [kind |-> "str"]
    ELSE [kind |-> "NoneType"]

\* An exception that leaves a method.
Raised(error) == [kind |-> "raised", error |-> error]

IsRaised(outcome) == "kind" \in DOMAIN outcome /\ outcome.kind = "raised"

\* The metadata the record keeps without the keys the parser does not read.
frontmatter_KnownKeysOnly(loaded) ==
    [key \in DOMAIN loaded.map \cap
               {"name", "description", "version", "author", "category", "tags"} |->
        loaded.map[key]]

\* ""metadata": frontmatter": the whole dict of the header.
frontmatter(loaded) == loaded.map

\* SkillOrchestrator._parse_skill_file on the text content read from
\* file_path: a record, None, or the AttributeError of calling .get on a
\* header that is not a dict (the except clause names yaml.YAMLError only).
parse_text(content, file_path) ==
    IF ~HeaderMatches(content) THEN None
    ELSE IF YAMLError(HeaderGroup(content)) THEN None
    ELSE LET loaded == safe_load(HeaderGroup(content))
             body == Strip(BodyGroup(content))
         IN  IF loaded.kind # "dict" THEN Raised("AttributeError")
             ELSE IF Get(loaded.map, "name", "") = "" THEN None
             ELSE [name |-> loaded.map["name"],
                   description |-> Get(loaded.map, "description", ""),
                   version |-> Get(loaded.map, "version", DefaultVersion),
                   author |-> Get(loaded.map, "author", "Unknown"),
                   category |-> Get(loaded.map, "category", "uncategorized"),
                   tags |-> Get(loaded.map, "tags", <<>>),
                   metadata |-> frontmatter(loaded),
                   body |-> body,
                   file_path |-> file_path]

\* What _parse_skill_file gives for the file at path p.
parse_skill_file(p) == parse_text(TextOf(fs[p].id), p)

\* "if skill_data:": a record, not None.
IsRecord(outcome) == "name" \in DOMAIN outcome

\* The loop of discover_skills left at the first exception.
AfterException_LeavesLoop(order, k, found) == found

RECURSIVE discover_from(_, _, _)
\* "except Exception as e: logger.error(...)": the loop goes on with the
\* next file.
AfterException(order, k, found) == discover_from(order, k + 1, found)

\* The loop "for skill_file in target_path.glob("**/*.md")" from the k-th
\* file on, found being self.discovered_skills so far.
discover_from(order, k, found) ==
    IF k > Len(order) THEN found
    ELSE LET skill_data == parse_skill_file(Docs[order[k]].file)
         IN  IF IsRaised(skill_data) THEN AfterException(order, k, found)
             ELSE IF IsRecord(skill_data)
                  THEN discover_from(order, k + 1, Append(found, skill_data))
                  ELSE discover_from(order, k + 1, found)

\* "if not skills" with the test left out.
NoSkills_Never(skills) == FALSE

\* "if not skills:" in run_full_orchestration.
NoSkills(skills) == Len(skills) = 0

Discover ==
    /\ pc = "start"
    /\ LET skills == discover_from(glob_order, 1, <<>>)
       IN  /\ discovered_skills' = skills
           /\ IF NoSkills(skills)
              THEN /\ pc' = "done"
                   /\ summary' = [status |-> "no_skills_found", skills_discovered |-> 0]
              ELSE /\ pc' = "clustering"
                   /\ summary' = summary
    /\ UNCHANGED helper_vars
    /\ UNCHANGED service_vars
    /\ UNCHANGED <<fs, glob_order, similarity_threshold, auto_commit, auto_push,
                   git_manager, clusters, consolidated, archivable_skills, published,
                   archived, idx, write_errors, raised, committed, pushed, call_result>>

(***************************************************************************)
(* Phase 2: SkillOrchestrator.cluster_skills.  The optional threshold is   *)
(* <<>> for None and <<t>> for the value t.                                *)
(***************************************************************************)
\* "threshold = threshold or self.config.similarity_threshold": None and 0
\* are both falsy.
EffectiveThreshold(threshold, configured) ==
    IF Len(threshold) = 0 THEN configured
    ELSE IF threshold[1] = 0 THEN configured
    ELSE threshold[1]

orchestrator_cluster_skills(skills, threshold, configured) ==
    IF Len(skills) = 0 THEN <<>>
    ELSE nlp_cluster_skills(skills, EffectiveThreshold(threshold, configured))

Cluster ==
    /\ pc = "clustering"
    /\ clusters' = orchestrator_cluster_skills(discovered_skills, <<>>, similarity_threshold)
    /\ pc' = "consolidating"
    /\ idx' = 1
    /\ LET helper == HelperAfterClustering(embeddings_cache, encode_calls, discovered_skills)
       IN  embeddings_cache' = helper.cache /\ encode_calls' = helper.calls
    /\ UNCHANGED service_vars
    /\ UNCHANGED <<fs, glob_order, similarity_threshold, auto_commit, auto_push,
                   git_manager, discovered_skills, consolidated, archivable_skills,
                   published, archived, write_errors, raised, committed, pushed,
                   summary, call_result>>

(***************************************************************************)
(* Phase 3: the consolidation loop of run_full_orchestration.              *)
(***************************************************************************)
Names(skills) == [k \in 1..Len(skills) |-> skills[k].name]

\* "if len(cluster_skills) > 1".
WorthConsolidating(cluster_skills) == Len(cluster_skills) > 1

ConsolidateStep ==
    /\ pc = "consolidating"
    /\ idx <= Len(clusters)
    /\ \E tags \in TagListsOf(clusters, idx - 1) :
          LET cluster_skills == clusters[idx]
              master == consolidate_cluster(clusters, idx - 1, tags)
          IN  IF WorthConsolidating(cluster_skills) /\ master # None
              THEN /\ consolidated' = Append(consolidated, master)
                   /\ archivable_skills' = archivable_skills \o Names(cluster_skills)
              ELSE UNCHANGED <<consolidated, archivable_skills>>
    /\ idx' = idx + 1
    /\ UNCHANGED helper_vars
    /\ UNCHANGED service_vars
    /\ UNCHANGED <<pc, fs, glob_order, similarity_threshold, auto_commit, auto_push,
                   git_manager, discovered_skills, clusters, published, archived,
                   write_errors, raised, committed, pushed, summary, call_result>>

\* The loop left while clusters remain.
ConsolidateEnd_Early ==
    /\ pc = "consolidating"
    /\ pc' = "publishing"
    /\ idx' = 1
    /\ UNCHANGED helper_vars
    /\ UNCHANGED service_vars
    /\ UNCHANGED <<fs, glob_order, similarity_threshold, auto_commit, auto_push,
                   git_manager, discovered_skills, clusters, consolidated,
                   archivable_skills, published, archived, write_errors, raised,
                   committed, pushed, summary, call_result>>

ConsolidateEnd ==
    /\ pc = "consolidating"
    /\ idx > Len(clusters)
    /\ pc' = "publishing"
    /\ idx' = 1
    /\ UNCHANGED helper_vars
    /\ UNCHANGED service_vars
    /\ UNCHANGED <<fs, glob_order, similarity_threshold, auto_commit, auto_push,
                   git_manager, discovered_skills, clusters, consolidated,
                   archivable_skills, published, archived, write_errors, raised,
                   committed, pushed, summary, call_result>>

(***************************************************************************)
(* Phase 4: publish_consolidated_skill for every master.  write_text       *)
(* either writes the file or raises, and the except clause returns None.   *)
(***************************************************************************)
\* "output_path / f"{consolidated_skill['name']}.md"", output_dir defaulting
\* to config.skills_dir.
MasterPath(master) == Path("skills", master.name \o ".md")

\* The keys of a master's metadata in the order the dict is built, which
\* yaml.dump keeps (sort_keys=False).
MetadataKeys == <<"name", "description", "version", "author", "category", "tags", "merged_from">>

\* yaml.dump(metadata, default_flow_style=False, sort_keys=False): one
\* "key: value" line for each key (a list in block style goes with the line
\* of its key), each ended by "\n".  PyYAML quotes a string that would
\* otherwise load as another type, so safe_load gives the value back.
yaml_dump(metadata) ==
    [k \in 1..Len(MetadataKeys) |-> Pair(MetadataKeys[k], metadata[MetadataKeys[k]])]

\* The file content without the "---" after the header.
file_content_NoEndMarker(consolidated_skill) ==
    <<Marker>> \o yaml_dump(consolidated_skill.metadata) \o <<Text("")>>
      \o consolidated_skill.body \o <<Text("")>>

\* "file_content = f"---\n{yaml_content}---\n\n{consolidated_skill['body']}\n"".
file_content(consolidated_skill) ==
    <<Marker>> \o yaml_dump(consolidated_skill.metadata) \o <<Marker, Text("")>>
      \o consolidated_skill.body \o <<Text("")>>

MasterFile(master) ==
    [kind |-> "master", id |-> master.name, lines |-> file_content(master)]

\* The file system after path.write_text(content).
WriteFile(files, path, content) ==
    [p \in DOMAIN files \cup {path} |-> IF p = path THEN content ELSE files[p]]

PublishStep ==
    /\ pc = "publishing"
    /\ idx <= Len(consolidated)
    /\ \E ok \in BOOLEAN :
          IF ok
          THEN /\ fs' = WriteFile(fs, MasterPath(consolidated[idx]), MasterFile(consolidated[idx]))
               /\ published' = Append(published, MasterPath(consolidated[idx]))
               /\ write_errors' = write_errors
          ELSE /\ write_errors' = write_errors \cup {idx}
               /\ UNCHANGED <<fs, published>>
    /\ idx' = idx + 1
    /\ UNCHANGED helper_vars
    /\ UNCHANGED service_vars
    /\ UNCHANGED <<pc, glob_order, similarity_threshold, auto_commit, auto_push,
                   git_manager, discovered_skills, clusters, consolidated,
                   archivable_skills, archived, raised, committed, pushed, summary,
                   call_result>>

PublishEnd ==
    /\ pc = "publishing"
    /\ idx > Len(consolidated)
    /\ pc' = "archive_mkdir"
    /\ UNCHANGED helper_vars
    /\ UNCHANGED service_vars
    /\ UNCHANGED <<fs, glob_order, similarity_threshold, auto_commit, auto_push,
                   git_manager, discovered_skills, clusters, consolidated,
                   archivable_skills, published, archived, idx, write_errors, raised,
                   committed, pushed, summary, call_result>>

(***************************************************************************)
(* Phase 5: archive_original_skills.  Neither mkdir nor rename is inside a *)
(* try block: an OSError of either leaves run_full_orchestration.          *)
(***************************************************************************)
ArchiveMkdir ==
    /\ pc = "archive_mkdir"
    /\ \E ok \in BOOLEAN :
          IF ok
          THEN /\ pc' = "archiving"
               /\ idx' = 1
               /\ raised' = raised
          ELSE /\ pc' = "raised"
               /\ raised' = "OSError in mkdir"
               /\ idx' = idx
    /\ archived' = <<>>
    /\ UNCHANGED helper_vars
    /\ UNCHANGED service_vars
    /\ UNCHANGED <<fs, glob_order, similarity_threshold, auto_commit, auto_push,
                   git_manager, discovered_skills, clusters, consolidated,
                   archivable_skills, published, write_errors, committed, pushed,
                   summary, call_result>>

\* "skill["name"] in skill_names".
ToArchive(skill, skill_names) == \E k \in 1..Len(skill_names) : skill_names[k] = skill.name

\* "dest = archive_path / src.name".
ArchiveDest(src) == Path("archive", src.name)

\* The file system after src.rename(dest): the file is at dest (replacing
\* what was there) and no longer at src.
RenameFile(files, src, dest) ==
    [p \in (DOMAIN files \ {src}) \cup {dest} |-> IF p = dest THEN files[src] ELSE files[p]]

ArchiveStep ==
    /\ pc = "archiving"
    /\ idx <= Len(discovered_skills)
    /\ LET skill == discovered_skills[idx]
           src == skill.file_path
       IN  IF ToArchive(skill, archivable_skills) /\ src \in DOMAIN fs
           THEN \E ok \in BOOLEAN :
                   IF ok
                   THEN /\ fs' = RenameFile(fs, src, ArchiveDest(src))
                        /\ archived' = Append(archived, ArchiveDest(src))
                        /\ idx' = idx + 1
                        /\ UNCHANGED <<pc, raised>>
                   ELSE /\ pc' = "raised"
                        /\ raised' = "OSError in rename"
                        /\ UNCHANGED <<fs, archived, idx>>
           ELSE /\ idx' = idx + 1
                /\ UNCHANGED <<pc, fs, archived, raised>>
    /\ UNCHANGED helper_vars
    /\ UNCHANGED service_vars
    /\ UNCHANGED <<glob_order, similarity_threshold, auto_commit, auto_push,
                   git_manager, discovered_skills, clusters, consolidated,
                   archivable_skills, published, write_errors, committed, pushed,
                   summary, call_result>>

ArchiveEnd ==
    /\ pc = "archiving"
    /\ idx > Len(discovered_skills)
    /\ pc' = "commit"
    /\ UNCHANGED helper_vars
    /\ UNCHANGED service_vars
    /\ UNCHANGED <<fs, glob_order, similarity_threshold, auto_commit, auto_push,
                   git_manager, discovered_skills, clusters, consolidated,
                   archivable_skills, published, archived, idx, write_errors, raised,
                   committed, pushed, summary, call_result>>

(***************************************************************************)
(* Phases 6 and 7: commit_changes and push_changes, which catch every      *)
(* exception of the Git manager, and the returned summary.                 *)
(***************************************************************************)
Commit ==
    /\ pc = "commit"
    /\ IF auto_commit /\ git_manager
       THEN \E ok \in BOOLEAN : committed' = ok
       ELSE committed' = committed
    /\ pc' = "push"
    /\ UNCHANGED helper_vars
    /\ UNCHANGED service_vars
    /\ UNCHANGED <<fs, glob_order, similarity_threshold, auto_commit, auto_push,
                   git_manager, discovered_skills, clusters, consolidated,
                   archivable_skills, published, archived, idx, write_errors, raised,
                   pushed, summary, call_result>>

Push ==
    /\ pc = "push"
    /\ IF auto_push /\ git_manager
       THEN \E ok \in BOOLEAN : pushed' = ok
       ELSE pushed' = pushed
    /\ pc' = "return"
    /\ UNCHANGED helper_vars
    /\ UNCHANGED service_vars
    /\ UNCHANGED <<fs, glob_order, similarity_threshold, auto_commit, auto_push,
                   git_manager, discovered_skills, clusters, consolidated,
                   archivable_skills, published, archived, idx, write_errors, raised,
                   committed, summary, call_result>>

\* The final dict with len(skills) and len(clusters) exchanged.
RunSummary_Swapped(skills, cs, cons, pub, arch) ==
    [status |-> "success",
     skills_discovered |-> Len(cs),
     clusters_created |-> Len(skills),
     skills_consolidated |-> Len(cons),
     skills_published |-> Len(pub),
     skills_archived |-> Len(arch),
     published_files |-> pub,
     archived_files |-> arch]

\* The dict of the final return statement.
RunSummary(skills, cs, cons, pub, arch) ==
    [status |-> "success",
     skills_discovered |-> Len(skills),
     clusters_created |-> Len(cs),
     skills_consolidated |-> Len(cons),
     skills_published |-> Len(pub),
     skills_archived |-> Len(arch),
     published_files |-> pub,
     archived_files |-> arch]

Return ==
    /\ pc = "return"
    /\ summary' = RunSummary(discovered_skills, clusters, consolidated, published, archived)
    /\ pc' = "done"
    /\ UNCHANGED helper_vars
    /\ UNCHANGED service_vars
    /\ UNCHANGED <<fs, glob_order, similarity_threshold, auto_commit, auto_push,
                   git_manager, discovered_skills, clusters, consolidated,
                   archivable_skills, published, archived, idx, write_errors, raised,
                   committed, pushed, call_result>>

(***************************************************************************)
(* A direct call of consolidate_cluster(cluster_id) by a user of the       *)
(* class, on an orchestrator whose self.clusters holds one cluster of      *)
(* records with any of these version strings.                              *)
(***************************************************************************)
VersionStrings ==
    { <<"1", ".", "0", ".", "0">>,
      <<"1", ".", "2", ".", "3">>,
      <<"1", ".", "2", ".", "9">>,
      <<"1", ".", "2", ".", "1", "0">>,
      <<"1", ".", "1", "0", ".", "0">>,
      <<"2", ".", "0", ".", "0">>,
      <<"1", "0", ".", "0", ".", "0">>,
      <<"1", ".", "2">>,
      <<"1", ".", "x", ".", "0">>,
      <<"x">>,
      <<>> }

VersionedSkill(v) ==
    [name |-> "deploy", description |-> "Deploy code to prod", version |-> v,
     file_path |-> Path("skills", "deploy.md")]

ClustersOfSize(n) ==
    UNION {{<<[m \in 1..k |-> VersionedSkill(vs[m])]>> : vs \in [1..k -> VersionStrings]} :
           k \in 1..n}

\* Records that differ in their description: none, empty, blank, and two
\* texts with and without blanks around them.
DescribedSkills ==
    {[name |-> "build", version |-> DefaultVersion,
      file_path |-> Path("skills", "build.md")]}
    \cup {[name |-> "build", description |-> d, version |-> DefaultVersion,
           file_path |-> Path("skills", "build.md")] :
             d \in {"", "   ", "Build things.", " Build things. ", "Ship fast.", "Ship fast.  "}}

\* Records that differ in their tags: none, an empty list, shared tags in
\* either order, a tag twice in one list.
TaggedSkills ==
    {[name |-> "build", description |-> "Build things.", version |-> DefaultVersion,
      file_path |-> Path("skills", "build.md")]}
    \cup {[name |-> "build", description |-> "Build things.", version |-> DefaultVersion,
           tags |-> t, file_path |-> Path("skills", "build.md")] :
             t \in {<<>>, <<"ci">>, <<"ci", "cd">>, <<"cd", "ci">>, <<"ops", "ci", "ops">>}}

\* Records that differ in their body: none, empty, a section with a rule
\* "---", one section, that section before another one, that section after
\* text without a heading.  Bodies are trimmed, as _parse_skill_file leaves
\* them.
BodiedSkills ==
    {[name |-> "build", description |-> "Build things.", version |-> DefaultVersion,
      file_path |-> Path("skills", "build.md")]}
    \cup {[name |-> "build", description |-> "Build things.", version |-> DefaultVersion,
           body |-> b, file_path |-> Path("skills", "build.md")] :
             b \in {EmptyText,
                    <<Text("# Setup"), Text("Install it"), Marker, Text("Check it")>>,
                    <<Text("# Steps"), Text("Run it")>>,
                    <<Text("# Steps"), Text("Run it"), Text(""), Text("## Deploy"),
                      Text("Push it")>>,
                    <<Text("Before you start"), Text("# Steps"), Text("Run it")>>}}

\* One cluster of at most n records, each from pool.
ClustersOver(pool, n) == UNION {{<<c>> : c \in [1..k -> pool]} : k \in 1..n}

InitCall ==
    /\ pc = "api"
    /\ clusters \in ClustersOfSize(MaxCluster) \cup ClustersOver(DescribedSkills, MaxCluster)
                     \cup ClustersOver(TaggedSkills, MaxCluster)
                     \cup ClustersOver(BodiedSkills, MaxCluster)
    /\ glob_order = <<>>
    /\ fs = FilesOf(glob_order)
    /\ similarity_threshold = 60
    /\ auto_commit = TRUE
    /\ auto_push = FALSE
    /\ git_manager = FALSE
    /\ discovered_skills = <<>>
    /\ consolidated = <<>>
    /\ archivable_skills = <<>>
    /\ published = <<>>
    /\ archived = <<>>
    /\ idx = 0
    /\ write_errors = {}
    /\ raised = "none"
    /\ committed = FALSE
    /\ pushed = FALSE
    /\ summary = NoSummary
    /\ call_result = NoCall
    /\ NewHelper
    /\ NoLauncher
    /\ NoHeartbeat

\* The documents of a repository in which some files are no SKILL files, or
\* lack a description: two of each kind.
MixedPool == {"d1", "d2", "g1", "g2", "b1", "b3"}

\* What glob can yield for such a repository: at least one of its files is
\* not among DocIds.
MixedOrders(n) ==
    UNION {{s \in [1..k -> MixedPool] :
               /\ \A i, j \in 1..k : i # j => s[i] # s[j]
               /\ \E i \in 1..k : s[i] \notin DocIds} : k \in 1..n}

\* Such a repository before run_full_orchestration, under the default
\* configuration.
InitMixed ==
    /\ pc = "start"
    /\ glob_order \in MixedOrders(MaxSkills)
    /\ fs = FilesOf(glob_order)
    /\ similarity_threshold = 60
    /\ auto_commit = TRUE
    /\ auto_push = FALSE
    /\ git_manager = TRUE
    /\ discovered_skills = <<>>
    /\ clusters = <<>>
    /\ consolidated = <<>>
    /\ archivable_skills = <<>>
    /\ published = <<>>
    /\ archived = <<>>
    /\ idx = 0
    /\ write_errors = {}
    /\ raised = "none"
    /\ committed = FALSE
    /\ pushed = FALSE
    /\ summary = NoSummary
    /\ call_result = NoCall
    /\ NewHelper
    /\ NoLauncher
    /\ NoHeartbeat

\* One file of any text, before a direct call of _parse_skill_file.
InitParse ==
    /\ pc = "parse_api"
    /\ \E d \in DOMAIN Docs : glob_order = <<d>>
    /\ fs = FilesOf(glob_order)
    /\ similarity_threshold = 60
    /\ auto_commit = TRUE
    /\ auto_push = FALSE
    /\ git_manager = FALSE
    /\ discovered_skills = <<>>
    /\ clusters = <<>>
    /\ consolidated = <<>>
    /\ archivable_skills = <<>>
    /\ published = <<>>
    /\ archived = <<>>
    /\ idx = 0
    /\ write_errors = {}
    /\ raised = "none"
    /\ committed = FALSE
    /\ pushed = FALSE
    /\ summary = NoSummary
    /\ call_result = NoCall
    /\ NewHelper
    /\ NoLauncher
    /\ NoHeartbeat

\* An orchestrator that has discovered the documents of a repository,
\* before a direct call of a clustering method.
InitCluster ==
    /\ pc = "cluster_api"
    /\ glob_order \in GlobOrders(MaxSkills)
    /\ fs = FilesOf(glob_order)
    /\ similarity_threshold = 60
    /\ auto_commit = TRUE
    /\ auto_push = FALSE
    /\ git_manager = FALSE
    /\ discovered_skills = discover_from(glob_order, 1, <<>>)
    /\ clusters = <<>>
    /\ consolidated = <<>>
    /\ archivable_skills = <<>>
    /\ published = <<>>
    /\ archived = <<>>
    /\ idx = 0
    /\ write_errors = {}
    /\ raised = "none"
    /\ committed = FALSE
    /\ pushed = FALSE
    /\ summary = NoSummary
    /\ call_result = NoCall
    /\ NewHelper
    /\ NoLauncher
    /\ NoHeartbeat

\* A new helper, before direct calls of get_embedding.
InitEmbed ==
    /\ pc = "embed_api"
    /\ glob_order = <<>>
    /\ fs = FilesOf(glob_order)
    /\ similarity_threshold = 60
    /\ auto_commit = TRUE
    /\ auto_push = FALSE
    /\ git_manager = FALSE
    /\ discovered_skills = <<>>
    /\ clusters = <<>>
    /\ consolidated = <<>>
    /\ archivable_skills = <<>>
    /\ published = <<>>
    /\ archived = <<>>
    /\ idx = 0
    /\ write_errors = {}
    /\ raised = "none"
    /\ committed = FALSE
    /\ pushed = FALSE
    /\ summary = NoSummary
    /\ call_result = NoCall
    /\ NewHelper
    /\ NoLauncher
    /\ NoHeartbeat

\* The variables of the orchestrator and of its helper.
orchestrator_vars ==
    <<fs, glob_order, similarity_threshold, auto_commit, auto_push, git_manager,
      discovered_skills, clusters, consolidated, archivable_skills, published,
      archived, idx, write_errors, raised, committed, pushed, summary, helper_vars>>

\* No orchestrator is at work.
NoOrchestrator ==
    /\ glob_order = <<>>
    /\ fs = FilesOf(glob_order)
    /\ similarity_threshold = 60
    /\ auto_commit = TRUE
    /\ auto_push = FALSE
    /\ git_manager = FALSE
    /\ discovered_skills = <<>>
    /\ clusters = <<>>
    /\ consolidated = <<>>
    /\ archivable_skills = <<>>
    /\ published = <<>>
    /\ archived = <<>>
    /\ idx = 0
    /\ write_errors = {}
    /\ raised = "none"
    /\ committed = FALSE
    /\ pushed = FALSE
    /\ summary = NoSummary
    /\ NewHelper

\* A directory in which the token may have been launched by an earlier
\* process, before any ClawnchLauncher of the processes at hand is created.
InitLaunch ==
    /\ pc = "launcher"
    /\ NoOrchestrator
    /\ call_result = NoCall
    /\ launch_file \in BOOLEAN
    /\ launchers = [l \in Launchers |-> NotCreated]
    /\ relay_events = 0
    /\ NoHeartbeat

\* A repository before SkillOrchestratorAsOpenClawSkill.execute is called:
\* the orchestrator is built inside the call.
InitExecute ==
    /\ pc = "execute"
    /\ glob_order \in GlobOrders(MaxSkills) \cup MixedOrders(2)
    /\ fs = FilesOf(glob_order)
    /\ similarity_threshold = 60
    /\ auto_commit = TRUE
    /\ auto_push = FALSE
    /\ git_manager = FALSE
    /\ discovered_skills = <<>>
    /\ clusters = <<>>
    /\ consolidated = <<>>
    /\ archivable_skills = <<>>
    /\ published = <<>>
    /\ archived = <<>>
    /\ idx = 0
    /\ write_errors = {}
    /\ raised = "none"
    /\ committed = FALSE
    /\ pushed = FALSE
    /\ summary = NoSummary
    /\ call_result = NoCall
    /\ NewHelper
    /\ NoLauncher
    /\ NoHeartbeat

Init ==
    InitRun \/ InitCall \/ InitMixed \/ InitParse \/ InitCluster \/ InitEmbed
        \/ InitLaunch \/ InitExecute

\* The dry-run test left out.
Consolidates_Always(dry_run) == TRUE

\* "if not dry_run:" of the consolidation loop of execute.
Consolidates(dry_run) == ~dry_run

\* "consolidated_count += value": an int and a dict, or an int and None,
\* cannot be added.
AddTo(counted, value) ==
    IF "kind" \in DOMAIN value
    THEN [raised |-> "TypeError", count |-> counted.count]
    ELSE [raised |-> "none", count |-> counted.count + value]

\* The loop "for cluster_id, cluster_skills in orchestrator.clusters.items()"
\* of execute from cluster k on. Whichever order list(set(...)) gives the
\* tags of a master, the value returned is a dict.
RECURSIVE count_from(_, _, _, _)
count_from(cs, k, counted, dry_run) ==
    IF k > Len(cs) \/ counted.raised # "none" THEN counted
    ELSE IF WorthConsolidating(cs[k]) /\ Consolidates(dry_run)
         THEN count_from(cs, k + 1,
                         AddTo(counted,
                               consolidate_cluster(cs, k - 1,
                                   CHOOSE tags \in TagListsOf(cs, k - 1) : TRUE)),
                         dry_run)
         ELSE count_from(cs, k + 1, counted, dry_run)

\* The dict that "except Exception as e" of execute returns.
ErrorResult(error) == [status |-> "error", error_type |-> error]

\* What execute returns once the loop has ended: orchestrator.publish_changes
\* is called when something was consolidated, and SkillOrchestrator has no
\* such method.
ExecuteResult(skills, cs, counted, dry_run) ==
    IF counted.raised # "none" THEN ErrorResult(counted.raised)
    ELSE IF ~dry_run /\ counted.count > 0 THEN ErrorResult("AttributeError")
    ELSE [status |-> "success", skills_discovered |-> Len(skills),
          clusters |-> Len(cs), consolidated |-> counted.count,
          dry_run |-> dry_run]

\* The thresholds execute is given: its default 0.6, and one above 1.
ExecuteThresholds == {60, 101}

\* SkillOrchestratorAsOpenClawSkill.execute(similarity_threshold=threshold,
\* dry_run=dry_run) in a git repository.
Execute ==
    /\ pc = "execute"
    /\ \E dry_run \in BOOLEAN, threshold \in ExecuteThresholds :
          LET skills == discover_from(glob_order, 1, <<>>)
              cs == orchestrator_cluster_skills(skills, <<threshold>>, threshold)
              counted == count_from(cs, 1, [raised |-> "none", count |-> 0], dry_run)
              helper == HelperAfterClustering(embeddings_cache, encode_calls, skills)
          IN  /\ similarity_threshold' = threshold
              /\ git_manager' = ~dry_run
              /\ discovered_skills' = skills
              /\ clusters' = cs
              /\ embeddings_cache' = helper.cache
              /\ encode_calls' = helper.calls
              /\ call_result' =
                    [kind |-> "executed", dry_run |-> dry_run,
                     returned |-> IF Len(skills) = 0
                                  THEN [status |-> "success", skills_discovered |-> 0,
                                        clusters |-> 0, consolidated |-> 0]
                                  ELSE ExecuteResult(skills, cs, counted, dry_run)]
    /\ pc' = "executed"
    /\ UNCHANGED service_vars
    /\ UNCHANGED <<fs, glob_order, auto_commit, auto_push, consolidated,
                   archivable_skills, published, archived, idx, write_errors, raised,
                   committed, pushed, summary>>

\* ClawnchLauncher(): without NOSTR_NSEC a ValueError leaves the constructor
\* and there is no instance; else _launched is read from the marker file.
CreateLauncher(l) ==
    /\ pc = "launcher"
    /\ ~launchers[l].created
    /\ \E nsec \in {"", "nsec1"} :
          IF nsec = ""
          THEN UNCHANGED launchers
          ELSE launchers' = [launchers EXCEPT ![l] = [created |-> TRUE,
                                                     launched |-> launch_file]]
    /\ UNCHANGED <<pc, call_result, launch_file, relay_events>>
    /\ UNCHANGED <<orchestrator_vars, heartbeat_vars>>

\* The statements of the try block of launch_token that may raise.
LaunchSteps == <<"sign", "open_connections", "publish_event", "close_connections",
                 "touch">>

\* Position of a statement in the try block.
StepOf(name) == CHOOSE k \in 1..Len(LaunchSteps) : LaunchSteps[k] = name

\* Whether a try block that the statement failed_at left ("none": it was
\* not left) has completed the statement.
Completed(name, failed_at) ==
    failed_at = "none" \/ StepOf(name) < StepOf(failed_at)

\* launcher.launch_token().
LaunchToken(l) ==
    /\ pc = "launcher"
    /\ launchers[l].created
    /\ relay_events < MaxEvents
    /\ IF launchers[l].launched
       THEN /\ call_result' = [kind |-> "launch", launcher |-> l, returned |-> FALSE]
            /\ UNCHANGED <<launch_file, launchers, relay_events>>
       ELSE \E failed_at \in {"none"} \cup {LaunchSteps[k] : k \in 1..Len(LaunchSteps)} :
               /\ relay_events' = IF Completed("publish_event", failed_at)
                                  THEN relay_events + 1 ELSE relay_events
               /\ launch_file' = (launch_file \/ Completed("touch", failed_at))
               /\ launchers' = [launchers EXCEPT ![l].launched = (failed_at = "none")]
               /\ call_result' = [kind |-> "launch", launcher |-> l,
                                  returned |-> (failed_at = "none")]
    /\ UNCHANGED pc
    /\ UNCHANGED <<orchestrator_vars, heartbeat_vars>>

\* The texts a caller asks embeddings of: two wordings of one task, and a
\* text whose embedding equals that of the second.
EmbedTexts == {"Deploy code to prod", "Deploys code to production", "rollout"}

\* NLPHelper.get_embedding(text), called directly.
GetEmbedding ==
    /\ pc = "embed_api"
    /\ \E text \in EmbedTexts :
          LET got == get_embedding(embeddings_cache, encode_calls, text)
          IN  /\ call_result' = [kind |-> "embedding", text |-> text,
                                 embedding |-> got.embedding]
              /\ embeddings_cache' = got.cache
              /\ encode_calls' = got.calls
    /\ UNCHANGED service_vars
    /\ UNCHANGED <<pc, fs, glob_order, similarity_threshold, auto_commit, auto_push,
                   git_manager, discovered_skills, clusters, consolidated,
                   archivable_skills, published, archived, idx, write_errors, raised,
                   committed, pushed, summary>>

\* The thresholds a caller passes, in hundredths: below -1, negative, zero,
\* and two above 1.
ArgThresholds == {-150, -50, 0, 101, 150}

\* nlp_helper.cluster_skills(skills, threshold) called on the discovered
\* records: the result is returned, self.clusters is not assigned.
CallEngineCluster ==
    /\ pc = "cluster_api"
    /\ \E threshold \in ArgThresholds :
          call_result' = [kind |-> "clustered", route |-> "engine",
                          threshold |-> <<threshold>>,
                          result |-> IF Len(discovered_skills) = 0 THEN <<>>
                                     ELSE nlp_cluster_skills(discovered_skills, threshold)]
    /\ pc' = "clustered"
    /\ LET helper == HelperAfterClustering(embeddings_cache, encode_calls, discovered_skills)
       IN  embeddings_cache' = helper.cache /\ encode_calls' = helper.calls
    /\ UNCHANGED service_vars
    /\ UNCHANGED <<fs, glob_order, similarity_threshold, auto_commit, auto_push,
                   git_manager, discovered_skills, clusters, consolidated,
                   archivable_skills, published, archived, idx, write_errors, raised,
                   committed, pushed, summary>>

\* SkillOrchestrator.cluster_skills(threshold), threshold given or None.
CallDriverCluster ==
    /\ pc = "cluster_api"
    /\ \E threshold \in {<<>>} \cup {<<t>> : t \in ArgThresholds} :
          LET result == orchestrator_cluster_skills(discovered_skills, threshold,
                                                    similarity_threshold)
          IN  /\ call_result' = [kind |-> "clustered", route |-> "driver",
                                 threshold |-> threshold, result |-> result]
              /\ clusters' = result
    /\ pc' = "clustered"
    /\ LET helper == HelperAfterClustering(embeddings_cache, encode_calls, discovered_skills)
       IN  embeddings_cache' = helper.cache /\ encode_calls' = helper.calls
    /\ UNCHANGED service_vars
    /\ UNCHANGED <<fs, glob_order, similarity_threshold, auto_commit, auto_push,
                   git_manager, discovered_skills, consolidated,
                   archivable_skills, published, archived, idx, write_errors, raised,
                   committed, pushed, summary>>

\* _parse_skill_file(file_path) for the one file of the repository.
CallParse ==
    /\ pc = "parse_api"
    /\ call_result' = parse_skill_file(Docs[glob_order[1]].file)
    /\ pc' = "parsed"
    /\ UNCHANGED helper_vars
    /\ UNCHANGED service_vars
    /\ UNCHANGED <<fs, glob_order, similarity_threshold, auto_commit, auto_push,
                   git_manager, discovered_skills, clusters, consolidated,
                   archivable_skills, published, archived, idx, write_errors, raised,
                   committed, pushed, summary>>

\* consolidate_cluster("cluster_k") for a k that is, or is not, in self.clusters.
CallConsolidate ==
    /\ pc = "api"
    /\ \E cluster_id \in 0..Len(clusters) :
          \E tags \in TagListsOf(clusters, cluster_id) :
             /\ call_result' = consolidate_cluster(clusters, cluster_id, tags)
             /\ idx' = cluster_id
    /\ pc' = "called"
    /\ UNCHANGED helper_vars
    /\ UNCHANGED service_vars
    /\ UNCHANGED <<fs, glob_order, similarity_threshold, auto_commit, auto_push,
                   git_manager, discovered_skills, clusters, consolidated,
                   archivable_skills, published, archived, write_errors, raised,
                   committed, pushed, summary>>

Next ==
    \/ Discover
    \/ Cluster
    \/ ConsolidateStep
    \/ ConsolidateEnd
    \/ PublishStep
    \/ PublishEnd
    \/ ArchiveMkdir
    \/ ArchiveStep
    \/ ArchiveEnd
    \/ Commit
    \/ Push
    \/ Return
    \/ CallConsolidate
    \/ CallParse
    \/ CallEngineCluster
    \/ CallDriverCluster
    \/ GetEmbedding
    \/ Execute
    \/ \E l \in Launchers : CreateLauncher(l)
    \/ \E l \in Launchers : LaunchToken(l)

Spec == Init /\ [][Next]_vars

(***************************************************************************)
(* The heartbeat: run_loop in continuous mode.                             *)
(***************************************************************************)
\* The intervals a heartbeat is given, in sleep periods.
Intervals == {2, 3}

\* HeartbeatOrchestrator.__init__, then run_loop(run_once=False) entered.
InitHeartbeat ==
    /\ pc = "heartbeat"
    /\ NoOrchestrator
    /\ call_result = NoCall
    /\ NoLauncher
    /\ loop_pc = "loop"
    /\ now = 0
    /\ interval \in Intervals
    /\ last_run = <<>>
    /\ run_ended = <<>>
    /\ last_outcome = "none"

\* should_run().
should_run == last_run = <<>> \/ now - last_run[1] >= interval

\* "if self.should_run():" of the while loop.
CheckShouldRun ==
    /\ loop_pc = "loop"
    /\ loop_pc' = IF should_run THEN "running" ELSE "sleeping"
    /\ UNCHANGED <<now, interval, last_run, run_ended, last_outcome>>
    /\ UNCHANGED <<pc, call_result, orchestrator_vars, launcher_vars>>

\* What run_full_orchestration does to run_orchestration.
Outcomes == {"success", "no_skills_found", "exception"}

\* self.last_run after run_orchestration.
LastRunAfter(outcome, instant) ==
    IF outcome = "success" THEN <<instant>> ELSE last_run

\* run_orchestration(), taking no or one sleep period of time.
RunOrchestration ==
    /\ loop_pc = "running"
    /\ \E outcome \in Outcomes, took \in {0, 1} :
          /\ now + took <= MaxTime
          /\ now' = now + took
          /\ last_run' = LastRunAfter(outcome, now')
          /\ run_ended' = <<now'>>
          /\ last_outcome' = outcome
    /\ loop_pc' = "loop"
    /\ UNCHANGED interval
    /\ UNCHANGED <<pc, call_result, orchestrator_vars, launcher_vars>>

\* time.sleep(60).
Sleep ==
    /\ loop_pc = "sleeping"
    /\ now < MaxTime
    /\ now' = now + 1
    /\ loop_pc' = "loop"
    /\ UNCHANGED <<interval, last_run, run_ended, last_outcome>>
    /\ UNCHANGED <<pc, call_result, orchestrator_vars, launcher_vars>>

NextHeartbeat ==
    \/ CheckShouldRun
    \/ RunOrchestration
    \/ Sleep

\* The loop is one thread that is never held up: each statement it reaches
\* is executed, and run_orchestration returns.
SpecHeartbeat ==
    /\ InitHeartbeat
    /\ [][NextHeartbeat]_vars
    /\ WF_vars(CheckShouldRun)
    /\ WF_vars(RunOrchestration)
    /\ WF_vars(Sleep)

(***************************************************************************)
(* Properties.                                                             *)
(***************************************************************************)
\* A run of run_full_orchestration (not a direct call of one method).
InRun ==
    pc \notin {"api", "called", "parse_api", "parsed", "cluster_api", "clustered",
               "embed_api", "launcher", "heartbeat", "execute", "executed"}

\* The clustering phase has filled self.clusters.
Clustered == InRun /\ pc \notin {"start", "clustering"}

\* cluster_skills has just returned: no later step assigns self.clusters.
JustClustered == pc = "consolidating" /\ idx = 1

\* The position in discovered_skills of a discovered record; the paths glob
\* yields are distinct.
PositionOf(skill) ==
    CHOOSE i \in 1..Len(discovered_skills) : discovered_skills[i].file_path = skill.file_path

PositionsOfCluster(k) == [m \in 1..Len(clusters[k]) |-> PositionOf(clusters[k][m])]

MembersOf(k) == {PositionsOfCluster(k)[m] : m \in 1..Len(clusters[k])}

OpenedBefore(k) == UNION {MembersOf(h) : h \in 1..(k - 1)}

LargeClusters == {k \in 1..Len(clusters) : Len(clusters[k]) >= 2}

RECURSIVE SizeSum(_, _)
SizeSum(cs, ks) ==
    IF ks = {} THEN 0
    ELSE LET k == CHOOSE x \in ks : TRUE IN Len(cs[k]) + SizeSum(cs, ks \ {k})

\* C1: every cluster is seeded by the lowest position not in an earlier
\* cluster; a later position j is in the cluster seeded by i exactly when j is
\* in no earlier cluster and similarity_matrix[i][j] >= threshold (the seed
\* alone decides); the members stand in input order.
C1_SeedOnlyMembership ==
    JustClustered =>
      \A k \in 1..Len(clusters) :
        LET c == PositionsOfCluster(k)
            i == c[1]
        IN  /\ i \notin OpenedBefore(k)
            /\ \A p \in 1..(i - 1) : p \in OpenedBefore(k)
            /\ \A j \in (i + 1)..Len(discovered_skills) :
                  (j \in MembersOf(k)) <=>
                     /\ j \notin OpenedBefore(k)
                     /\ similarity_matrix(discovered_skills, i, j) >= similarity_threshold
            /\ \A m, n \in 1..Len(c) : m < n => c[m] < c[n]

\* A record stays outside a cluster although it is similar enough to one of
\* the cluster's members other than the seed.
C1_Witness ==
    /\ JustClustered
    /\ \E k \in 1..Len(clusters) : \E m \in 2..Len(clusters[k]) :
          \E j \in 1..Len(discovered_skills) :
             /\ j > PositionsOfCluster(k)[m]
             /\ j \notin MembersOf(k)
             /\ j \notin OpenedBefore(k)
             /\ similarity_matrix(discovered_skills, PositionsOfCluster(k)[m], j)
                  >= similarity_threshold

\* C2: the clusters partition the input: every position of discovered_skills
\* is in exactly one cluster, once; no cluster is empty; every member is a
\* discovered record.
C2_ClustersPartitionInput ==
    JustClustered =>
      /\ \A k \in 1..Len(clusters) : Len(clusters[k]) >= 1
      /\ \A k \in 1..Len(clusters) : \A m \in 1..Len(clusters[k]) :
            \E i \in 1..Len(discovered_skills) : discovered_skills[i] = clusters[k][m]
      /\ \A i \in 1..Len(discovered_skills) :
            Cardinality({km \in {<<k, m>> : k \in 1..Len(clusters), m \in 1..Len(discovered_skills)} :
                            /\ km[2] <= Len(clusters[km[1]])
                            /\ clusters[km[1]][km[2]] = discovered_skills[i]}) = 1

C2_Witness ==
    /\ JustClustered
    /\ Len(clusters) >= 2
    /\ \E k \in 1..Len(clusters) : Len(clusters[k]) >= 2

ParsesAsThreeIntegers(v) ==
    /\ Len(SplitDots(v)) = 3
    /\ \A k \in 1..3 : IntParses(SplitDots(v)[k])

Triple(v) == [k \in 1..3 |-> IntOf(SplitDots(v)[k])]

TripleLess(a, b) ==
    \/ a[1] < b[1]
    \/ a[1] = b[1] /\ a[2] < b[2]
    \/ a[1] = b[1] /\ a[2] = b[2] /\ a[3] < b[3]

MaxTriple(skills) ==
    CHOOSE t \in {Triple(skills[k].version) : k \in 1..Len(skills)} :
       \A k \in 1..Len(skills) : ~TripleLess(t, Triple(skills[k].version))

NumericMaxBumped(skills) ==
    LET t == MaxTriple(skills)
    IN  IntToStr(t[1]) \o <<".">> \o IntToStr(t[2]) \o <<".">> \o IntToStr(t[3] + 1)

\* A direct call consolidated an existing cluster of two or more records.
CalledOnLargeCluster ==
    /\ pc = "called"
    /\ idx + 1 \in DOMAIN clusters
    /\ Len(clusters[idx + 1]) >= 2

\* C4: when every source version is three integers, the master version is
\* the numerically largest source version with its patch raised by one.
C4_VersionIsNumericMaxBumped ==
    (/\ CalledOnLargeCluster
     /\ \A k \in 1..Len(clusters[idx + 1]) :
           ParsesAsThreeIntegers(clusters[idx + 1][k].version))
      => /\ call_result # None
         /\ call_result.version = NumericMaxBumped(clusters[idx + 1])

\* C5: when some source version is not three integers, a master is still
\* returned and its version is "1.0.1".
C5_UnparsableVersionFallsBack ==
    (/\ CalledOnLargeCluster
     /\ \E k \in 1..Len(clusters[idx + 1]) :
           ~VersionParses(clusters[idx + 1][k].version))
      => /\ call_result # None
         /\ call_result.version = FallbackVersion

\* C6: the source file of a record that is alone in its cluster stays where
\* it was found, and the run archives nothing from its path.
C6_SingletonsStayInPlace ==
    Clustered =>
      \A k \in 1..Len(clusters) :
         Len(clusters[k]) = 1 =>
            LET p == clusters[k][1].file_path
            IN  /\ p \in DOMAIN fs
                /\ fs[p].kind = "skill"
                /\ Docs[fs[p].id].file = p

\* C7: a successful run reports as skills_archived the number of records in
\* the clusters it consolidated.
C7_ArchivedCountsConsolidatedRecords ==
    (summary.status = "success") =>
       summary.skills_archived = SizeSum(clusters, LargeClusters)

\* C8: the counts of a successful run are ordered:
\* skills_consolidated <= clusters_created <= skills_discovered.
C8_SummaryCountsOrdered ==
    (summary.status = "success") =>
       /\ summary.skills_consolidated <= summary.clusters_created
       /\ summary.clusters_created <= summary.skills_discovered

C8_Witness ==
    /\ summary.status = "success"
    /\ 1 <= summary.skills_consolidated
    /\ summary.skills_consolidated < summary.clusters_created
    /\ summary.clusters_created < summary.skills_discovered

\* C9: a source file whose relocation failed does not end the run: the run
\* goes on to archive the rest and to return its summary.
C9_RelocationFailureContained ==
    (raised = "OSError in rename") => pc # "raised"

\* C10: a master whose write failed has its path in no entry of published,
\* and the run goes on through archiving to its summary, which counts the
\* written masters only.
C10_WriteFailureContained ==
    \A k \in write_errors :
       /\ \A m \in 1..Len(published) : published[m] # MasterPath(consolidated[k])
       /\ pc # "raised"
       /\ (summary.status = "success") =>
             summary.skills_published = Len(consolidated) - Cardinality(write_errors)

(***************************************************************************)
(* Discovery and the order of the phases.                                  *)
(***************************************************************************)
\* discover_skills has just returned to run_full_orchestration.
JustDiscovered == pc = "clustering" \/ summary.status = "no_skills_found"

\* The document parses successfully.
Parseable(d) == IsRecord(parse_text(TextOf(d), Docs[d].file))

RecordsOf(d) ==
    {i \in 1..Len(discovered_skills) : discovered_skills[i].file_path = Docs[d].file}

\* C11: discovery yields exactly one record for every document that parses
\* and none for a document that does not; a document that fails, by None or
\* by an exception, neither hides the documents after it nor ends the run.
C11_OneRecordPerParsedDocument ==
    JustDiscovered =>
      /\ \A k \in 1..Len(glob_order) :
            Cardinality(RecordsOf(glob_order[k])) = IF Parseable(glob_order[k]) THEN 1 ELSE 0
      /\ Len(discovered_skills) =
            Cardinality({k \in 1..Len(glob_order) : Parseable(glob_order[k])})
      /\ raised = "none"

\* A file that raises and a file that gives None both come before a file
\* that parses.
C11_Witness ==
    /\ pc = "clustering"
    /\ \E i, j, k \in 1..Len(glob_order) :
          /\ i < k
          /\ j < k
          /\ IsRaised(parse_text(TextOf(glob_order[i]), Docs[glob_order[i]].file))
          /\ parse_text(TextOf(glob_order[j]), Docs[glob_order[j]].file) = None
          /\ Parseable(glob_order[k])

\* C12: a run whose discovery yields no record ends at once with the status
\* no_skills_found: nothing is clustered, consolidated, published or
\* archived, the files are as they were, and nothing is committed or pushed.
C12_NoSkillsEndsRun ==
    (InRun /\ pc # "start" /\ discovered_skills = <<>>) =>
       /\ pc = "done"
       /\ summary = [status |-> "no_skills_found", skills_discovered |-> 0]
       /\ clusters = <<>>
       /\ consolidated = <<>>
       /\ published = <<>>
       /\ archived = <<>>
       /\ fs = FilesOf(glob_order)
       /\ ~committed
       /\ ~pushed

\* The repository has files, none of which parses.
C12_Witness ==
    /\ pc = "done"
    /\ summary.status = "no_skills_found"
    /\ Len(glob_order) >= 2

\* Discovering, Clustering, Consolidating, Publishing, Archiving, Done; the
\* commit, the push and the return belong to the end of the run.
PhaseRank(p) ==
    CASE p = "start" -> 1
      [] p = "clustering" -> 2
      [] p = "consolidating" -> 3
      [] p = "publishing" -> 4
      [] p \in {"archive_mkdir", "archiving"} -> 5
      [] OTHER -> 6

\* C13: in a run that discovered a record every step stays in its phase or
\* enters the next one; a cluster is consolidated only when the clustering
\* of all records is done, a master write is attempted only when every
\* cluster of two or more has been consolidated, and a source file is moved
\* only when the write of every master has been attempted.
C13_PhasesInOrder ==
    [][(InRun /\ discovered_skills' # <<>> /\ pc' # "raised") =>
         /\ PhaseRank(pc') \in {PhaseRank(pc), PhaseRank(pc) + 1}
         /\ (consolidated' # consolidated) =>
               /\ PhaseRank(pc) = 3
               /\ clusters = nlp_cluster_skills(discovered_skills, similarity_threshold)
         /\ (published' # published \/ write_errors' # write_errors) =>
               /\ PhaseRank(pc) = 4
               /\ Len(consolidated) = Cardinality(LargeClusters)
         /\ (DOMAIN fs \ DOMAIN fs' # {}) =>
               /\ PhaseRank(pc) = 5
               /\ Len(published) + Cardinality(write_errors) = Len(consolidated)
      ]_vars

\* A run went through every phase, wrote a master and moved its sources.
C13_Witness ==
    /\ pc = "done"
    /\ summary.status = "success"
    /\ Len(clusters) >= 2
    /\ Len(published) >= 1
    /\ Len(archived) >= 2

\* C14: a run that an unrecoverable failure ends reports a summary whose
\* status is error.
C14_FailureReportsErrorSummary ==
    (pc = "raised") => (summary.status = "error")

(***************************************************************************)
(* The merges of the Consolidator.                                         *)
(***************************************************************************)
\* The sources of the master a direct call returned.
Sources == clusters[idx + 1]

\* The trimmed description of source k, empty when it has none.
Trimmed(k) == StripStr(IF "description" \in DOMAIN Sources[k] THEN Sources[k].description ELSE "")

\* The sources whose trimmed description is not empty and is not that of an
\* earlier source.
FirstOccurrences ==
    {k \in 1..Len(Sources) : Trimmed(k) # "" /\ \A j \in 1..(k - 1) : Trimmed(j) # Trimmed(k)}

\* The first n of them, in source order, joined by single spaces.
RECURSIVE SpacedUpTo(_)
SpacedUpTo(n) ==
    LET kept == {k \in FirstOccurrences : k <= n}
    IN  IF kept = {} THEN ""
        ELSE LET last == CHOOSE k \in kept : \A j \in kept : j <= k
             IN  IF kept = {last} THEN Trimmed(last)
                 ELSE SpacedUpTo(last - 1) \o " " \o Trimmed(last)

\* C15: the master description is the trimmed, non-empty source
\* descriptions, each distinct one once at its first occurrence, in source
\* order, joined by single spaces.
C15_DescriptionMerge ==
    CalledOnLargeCluster =>
       /\ call_result # None
       /\ call_result.description = SpacedUpTo(Len(Sources))

\* Blank, padded and repeated descriptions meet in one cluster.
C15_Witness ==
    /\ CalledOnLargeCluster
    /\ call_result # None
    /\ call_result.description = "Build things. Ship fast."
    /\ \E i, j \in 1..Len(Sources) :
          /\ i < j
          /\ "description" \in DOMAIN Sources[i]
          /\ "description" \in DOMAIN Sources[j]
          /\ Sources[i].description # Sources[j].description
          /\ Trimmed(i) = Trimmed(j)
          /\ Trimmed(i) # ""

\* The tags of source k as a set.
TagsOfSource(k) ==
    IF "tags" \in DOMAIN Sources[k]
    THEN {Sources[k].tags[m] : m \in 1..Len(Sources[k].tags)}
    ELSE {}

\* The sources in another order.
Reordered(f) == [k \in 1..Len(Sources) |-> Sources[f[k]]]

\* C17: the tags of the master are the union of the tags of its sources,
\* each once, and the same set whatever the order of the sources.
C17_TagsAreUnion ==
    CalledOnLargeCluster =>
       /\ call_result # None
       /\ {call_result.tags[m] : m \in 1..Len(call_result.tags)}
            = UNION {TagsOfSource(k) : k \in 1..Len(Sources)}
       /\ \A m, n \in 1..Len(call_result.tags) :
             m # n => call_result.tags[m] # call_result.tags[n]
       /\ \A f \in Permutations(1..Len(Sources)) :
             \A l \in TagLists(Reordered(f)) :
                {l[m] : m \in 1..Len(l)} = {call_result.tags[m] : m \in 1..Len(call_result.tags)}

\* The sources share a tag, one of them lists a tag twice, and one has no
\* tags at all.
C17_Witness ==
    /\ CalledOnLargeCluster
    /\ call_result # None
    /\ Len(call_result.tags) = 3
    /\ \E i, j \in 1..Len(Sources) : i # j /\ TagsOfSource(i) \cap TagsOfSource(j) # {}
    /\ \E i \in 1..Len(Sources) : "tags" \notin DOMAIN Sources[i]
    /\ \E i \in 1..Len(Sources) :
          "tags" \in DOMAIN Sources[i] /\ Len(Sources[i].tags) > Cardinality(TagsOfSource(i))

\* Source k has a body that is not the empty string.
HasBody(k) == "body" \in DOMAIN Sources[k] /\ Sources[k].body # EmptyText

\* The trimmed, non-empty sections of source k.
SectionsOfSource(k) ==
    IF HasBody(k) THEN StrippedSections(SplitSections(Sources[k].body, 1, <<>>, <<>>), 1)
    ELSE <<>>

\* <<k, m>> is section m of source k.
SectionPositions ==
    UNION {{<<k, m>> : m \in 1..Len(SectionsOfSource(k))} : k \in 1..Len(Sources)}

SectionAt(p) == SectionsOfSource(p[1])[p[2]]

SeenBefore(q, p) == q[1] < p[1] \/ (q[1] = p[1] /\ q[2] < p[2])

\* The positions at which a section is seen for the first time.
FirstSeen ==
    {p \in SectionPositions :
        \A q \in SectionPositions : SeenBefore(q, p) => SectionAt(q) # SectionAt(p)}

\* The sections at the positions P, in the order seen, a blank line between
\* one and the next.
RECURSIVE SectionsText(_)
SectionsText(P) ==
    IF P = {} THEN EmptyText
    ELSE LET last == CHOOSE p \in P : \A q \in P : q = p \/ SeenBefore(q, p)
         IN  IF P = {last} THEN SectionAt(last)
             ELSE SectionsText(P \ {last}) \o <<Text("")>> \o SectionAt(last)

\* C16: when a source has a body, the master body is the heading
\* "# Consolidated Workflow", a blank line, and the trimmed sections of all
\* source bodies, each distinct section once where it is first seen, blank
\* lines between them; when no source has a body it is the placeholder.
C16_BodyMerge ==
    CalledOnLargeCluster =>
       /\ call_result # None
       /\ call_result.body =
            IF \E k \in 1..Len(Sources) : HasBody(k)
            THEN <<Text("# Consolidated Workflow"), Text("")>> \o SectionsText(FirstSeen)
            ELSE <<Text("# Consolidated Workflow"), Text(""), Text("No body content found.")>>

\* A section of one source is met again in a later source, which adds a
\* section of its own.
C16_Witness ==
    /\ CalledOnLargeCluster
    /\ call_result # None
    /\ \E p, q \in SectionPositions : p[1] < q[1] /\ SectionAt(p) = SectionAt(q)
    /\ Cardinality(FirstSeen) >= 3
    /\ \E k \in 1..Len(Sources) : ~HasBody(k)

(***************************************************************************)
(* Writer and parser.                                                      *)
(***************************************************************************)
\* Parsing content gives a record with the name, version, description, tags
\* (as a set) and body of master.
ParsesBackTo(content, master) ==
    LET parsed == parse_text(content, MasterPath(master))
    IN  /\ IsRecord(parsed)
        /\ parsed.name = master.name
        /\ parsed.version = master.version
        /\ parsed.description = master.description
        /\ SetOf(parsed.tags) = SetOf(master.tags)
        /\ parsed.body = master.body

\* The publishing loop has just written the master at position idx - 1.
JustWritten == pc = "publishing" /\ idx > 1 /\ (idx - 1) \notin write_errors

\* C18: the text written for a master parses to a record with the master's
\* name, version, description, tags (as a set) and body: for the master a
\* direct call returned, and for the file a run has just written.
C18_RoundTrip ==
    /\ (CalledOnLargeCluster /\ call_result # None) =>
          ParsesBackTo(file_content(call_result), call_result)
    /\ JustWritten =>
          ParsesBackTo(fs[MasterPath(consolidated[idx - 1])].lines, consolidated[idx - 1])

\* A run wrote the master of two documents, one of which has a body and two
\* tags.
C18_Witness ==
    /\ JustWritten
    /\ Len(consolidated[idx - 1].tags) = 2
    /\ \E k \in 1..Len(consolidated[idx - 1].body) :
          consolidated[idx - 1].body[k] = Text("Open the tap")

\* The text given to a direct call of _parse_skill_file.
Parsed == TextOf(glob_order[1])

\* The text begins with "---" on a line, and a later line "---", itself
\* ended by a line break, closes a header of at least one line.
HasHeaderBlock == Len(Parsed) >= 2 /\ Parsed[1] = Marker /\ ClosingMarkers(Parsed) # {}

\* The "key: value" lines of the header block.
HeaderPairs == SelectSeq(HeaderGroup(Parsed), LAMBDA l : l.kind = "pair")

HeaderKeys == {HeaderPairs[k].key : k \in 1..Len(HeaderPairs)}

\* What the header gives for a key it holds.
HeaderValue(key) ==
    HeaderPairs[CHOOSE k \in 1..Len(HeaderPairs) :
                   /\ HeaderPairs[k].key = key
                   /\ \A m \in (k + 1)..Len(HeaderPairs) : HeaderPairs[m].key # key].val

\* The header block is YAML.
Decodable ==
    /\ \A k \in 1..Len(HeaderGroup(Parsed)) : HeaderGroup(Parsed)[k].kind # "bad"
    /\ (HeaderPairs # <<>>) =>
          \A k \in 1..Len(HeaderGroup(Parsed)) :
             HeaderGroup(Parsed)[k].kind = "text" => HeaderGroup(Parsed)[k].text = ""

\* The decoded header has a name.
HasName == "name" \in HeaderKeys /\ HeaderValue("name") # ""

C20_TextKeyIsDescriptionOrName ==
    JustClustered =>
       \A i \in 1..Len(discovered_skills) :
          TextKey(discovered_skills[i]) =
             IF discovered_skills[i].description # "" THEN discovered_skills[i].description
             ELSE discovered_skills[i].name

(***************************************************************************)
(* Thresholds outside [0, 1].                                              *)
(***************************************************************************)
\* A clustering method was called with the threshold t.
ClusteredWith(t) == pc = "clustered" /\ call_result.threshold = <<t>>

\* C21: with a threshold of 0 or less, given to the engine or to
\* cluster_skills of the orchestrator, a non-empty input gives one cluster,
\* cluster_0, of all records in input order.
C21_NonPositiveThresholdMergesAll ==
    \A t \in {a \in ArgThresholds : a <= 0} :
       (ClusteredWith(t) /\ Len(discovered_skills) > 0) =>
          call_result.result = <<discovered_skills>>

\* C22: with a threshold above 1 every record is alone in its cluster, and
\* cluster_k holds record k of the input.
C22_ThresholdAboveOneSplitsAll ==
    /\ \A t \in {a \in ArgThresholds : a > 100} :
          ClusteredWith(t) =>
             call_result.result = [k \in 1..Len(discovered_skills) |-> <<discovered_skills[k]>>]
    /\ (JustClustered /\ similarity_threshold > 100) =>
          clusters = [k \in 1..Len(discovered_skills) |-> <<discovered_skills[k]>>]

\* Records with the same direction of embedding are given with a threshold
\* above 1.
C22_Witness ==
    /\ pc = "clustered"
    /\ call_result.route = "driver"
    /\ call_result.threshold = <<101>>
    /\ Len(call_result.result) = 4
    /\ \E i, j \in 1..Len(discovered_skills) :
          i # j /\ similarity_matrix(discovered_skills, i, j) >= 60

(***************************************************************************)
(* The embedding cache.                                                    *)
(***************************************************************************)
\* The step is a direct request for the embedding of text.
Requests(text) ==
    /\ pc = "embed_api"
    /\ call_result'.kind = "embedding"
    /\ call_result'.text = text

\* C23: no step changes or removes a cache entry; a request for a cached
\* text returns the cached array, which is the one of the first request,
\* without invoking encode; a request for a text that has no entry of its
\* own invokes encode, whatever other entries there are, and stores the
\* array it returns under that text.
C23_CacheKeepsFirstEmbedding ==
    [][ /\ \A t \in DOMAIN embeddings_cache :
              /\ t \in DOMAIN embeddings_cache'
              /\ embeddings_cache'[t] = embeddings_cache[t]
        /\ encode_calls' >= encode_calls
        /\ \A t \in DOMAIN embeddings_cache' \ DOMAIN embeddings_cache :
              /\ embeddings_cache'[t].call > encode_calls
              /\ embeddings_cache'[t].call <= encode_calls'
        /\ \A text \in EmbedTexts :
              Requests(text) =>
                 IF text \in DOMAIN embeddings_cache
                 THEN /\ call_result'.embedding = embeddings_cache[text]
                      /\ encode_calls' = encode_calls
                      /\ embeddings_cache' = embeddings_cache
                 ELSE /\ encode_calls' = encode_calls + 1
                      /\ DOMAIN embeddings_cache' = DOMAIN embeddings_cache \cup {text}
                      /\ embeddings_cache'[text] = call_result'.embedding
                      /\ call_result'.embedding.call = encode_calls'
      ]_vars

\* "rollout" was embedded first, the second wording was then embedded anew
\* although its vector equals that of "rollout", and a repeated request for
\* "rollout" was answered with the array of the first invocation.
C23_Witness ==
    /\ pc = "embed_api"
    /\ call_result.kind = "embedding"
    /\ call_result.text = "rollout"
    /\ call_result.embedding.call = 1
    /\ encode_calls = 2
    /\ DOMAIN embeddings_cache = {"rollout", "Deploys code to production"}
    /\ embeddings_cache["Deploys code to production"].call = 2
    /\ embeddings_cache["Deploys code to production"].vector
          = embeddings_cache["rollout"].vector

(***************************************************************************)
(* The token launch.                                                       *)
(***************************************************************************)
\* C24: over all launch_token calls of the instances sharing the marker
\* file, the launch event is published to the relay at most once.
C24_LaunchPublishedAtMostOnce == relay_events <= 1

(***************************************************************************)
(* The schedule of the heartbeat.                                          *)
(***************************************************************************)
\* The interval has elapsed since the last run returned.
IntervalElapsed == run_ended # <<>> /\ now - run_ended[1] >= interval

\* C25: after a run, whatever its outcome, the next run does not start
\* before the interval has elapsed, and a run starts once it has elapsed.
C25_RunsOnInterval ==
    /\ [][(loop_pc = "loop" /\ loop_pc' = "running" /\ run_ended # <<>>)
             => IntervalElapsed]_vars
    /\ (IntervalElapsed /\ loop_pc # "running") ~> (loop_pc = "running")

(***************************************************************************)
(* The OpenClaw skill.                                                     *)
(***************************************************************************)
\* execute has returned.
Executed == pc = "executed"

\* The documents of the repository that parse.
ParseableDocuments == {k \in 1..Len(glob_order) : Parseable(glob_order[k])}

\* C26: a dry run leaves every file as it was, writes and archives
\* nothing, makes no commit and no push, and returns status success with
\* the number of discovered skills and the number of clusters.
C26_DryRunChangesNothing ==
    (Executed /\ call_result.dry_run) =>
       /\ fs = FilesOf(glob_order)
       /\ published = <<>> /\ archived = <<>>
       /\ ~committed /\ ~pushed /\ ~git_manager
       /\ call_result.returned.status = "success"
       /\ call_result.returned.skills_discovered = Cardinality(ParseableDocuments)
       /\ call_result.returned.clusters = Len(clusters)
       /\ (ParseableDocuments # {}) => (SizeSum(clusters, DOMAIN clusters)
                                           = Cardinality(ParseableDocuments))

\* A dry run over documents of which two fall into one cluster.
C26_Witness ==
    /\ Executed
    /\ call_result.dry_run
    /\ LargeClusters # {}
    /\ Len(clusters) >= 2
    /\ call_result.returned.skills_discovered = 3

\* C27: without dry_run, on documents with k >= 1 clusters of two or more
\* records, execute returns status success with consolidated equal to k.
C27_ExecuteConsolidatesLargeClusters ==
    (Executed /\ ~call_result.dry_run /\ LargeClusters # {}) =>
       /\ call_result.returned.status = "success"
       /\ call_result.returned.consolidated = Cardinality(LargeClusters)

(***************************************************************************)
(* What the run leaves in the repository.                                  *)
(***************************************************************************)
\* The cluster that the k-th master was consolidated from: the k-th of the
\* clusters of two or more records.
ClusterOfMaster(k) ==
    clusters[CHOOSE c \in LargeClusters :
                Cardinality({x \in LargeClusters : x < c}) = k - 1]

\* The source document is where discovery found it.
InPlace(path) ==
    /\ path \in DOMAIN fs
    /\ fs[path].kind = "skill"
    /\ Docs[fs[path].id].file = path

\* C28: when the write of a master failed, the source files of its cluster
\* stay in place.
C28_ArchivedOnlyIfMasterWritten ==
    InRun =>
      \A k \in write_errors :
         \A r \in 1..Len(ClusterOfMaster(k)) :
            InPlace(ClusterOfMaster(k)[r].file_path)

\* The documents of the repository at the start of the run.
SourceDocuments == {glob_order[k] : k \in 1..Len(glob_order)}

\* C29: the paths in archived are distinct, and every source document that
\* is no longer in place is kept, with its content, at the archive location
\* of its path.
C29_ArchivingLosesNoSource ==
    InRun =>
      /\ \A i, j \in 1..Len(archived) : i # j => archived[i] # archived[j]
      /\ \A d \in SourceDocuments :
            \/ InPlace(Docs[d].file)
            \/ /\ ArchiveDest(Docs[d].file) \in DOMAIN fs
               /\ fs[ArchiveDest(Docs[d].file)] = FileOf(d)

\* C30: no two masters are written to one path, and no master is written
\* over the file of a source document.
C30_MastersHaveOwnPaths ==
    InRun =>
      /\ \A i, j \in 1..Len(published) : i # j => published[i] # published[j]
      /\ \A d \in SourceDocuments :
            Docs[d].file \in DOMAIN fs => fs[Docs[d].file].kind = "skill"

=============================================================================
